---- MODULE Spec2Model ----
\* Request-logging middleware of lecho (zerolog adapter for echo), as a state
\* machine: one program counter per request, the shared base logger, the
\* process-wide zerolog level and the sink the events are written to.
EXTENDS Integers, Sequences, FiniteSets, TLC

\* ------------------------------------------------------------------ levels
\* zerolog.Level values (the engine's severities).
TraceLevel == -1
DebugLevel == 0
InfoLevel == 1
WarnLevel == 2
ErrorLevel == 3
NoLevel == 6

\* gommon log.Lvl values (the host framework's severities).
DEBUG == 1
INFO == 2
WARN == 3
ERROR == 4
OFF == 5

\* http status codes used by the handlers and the error handler.
StatusOK == 200
StatusMovedPermanently == 301
StatusInternalServerError == 500

\* Largest sleep of a handler, in clock ticks.
MaxSleep == 2

ZeroLevels == {TraceLevel, DebugLevel, InfoLevel, WarnLevel, ErrorLevel, NoLevel}
EchoLevels == {DEBUG, INFO, WARN, ERROR, OFF}

\* Mutant: OFF is translated to a level above no-level, which disables the
\* engine instance altogether.
echoLevelsOffDisabled(level) ==
    CASE level = DEBUG -> DebugLevel
      [] level = INFO -> InfoLevel
      [] level = WARN -> WarnLevel
      [] level = ERROR -> ErrorLevel
      [] level = OFF -> NoLevel + 1

\* levels.go: echoLevels table.
echoLevels(level) ==
    CASE level = DEBUG -> DebugLevel
      [] level = INFO -> InfoLevel
      [] level = WARN -> WarnLevel
      [] level = ERROR -> ErrorLevel
      [] level = OFF -> NoLevel

\* Mutant: info is reported as debug.
zeroLevelsCoarse(level) ==
    CASE level = TraceLevel -> DEBUG
      [] level = DebugLevel -> DEBUG
      [] level = InfoLevel -> DEBUG
      [] level = WarnLevel -> WARN
      [] level = ErrorLevel -> ERROR
      [] level = NoLevel -> OFF

\* levels.go: zeroLevels table.
zeroLevels(level) ==
    CASE level = TraceLevel -> DEBUG
      [] level = DebugLevel -> DEBUG
      [] level = InfoLevel -> INFO
      [] level = WarnLevel -> WARN
      [] level = ErrorLevel -> ERROR
      [] level = NoLevel -> OFF

\* MatchEchoLevel: <<zerolog level, echo level>> of an echo level.
MatchEchoLevel(level) ==
    IF level \in EchoLevels THEN <<echoLevels(level), level>> ELSE <<NoLevel, OFF>>

\* MatchZeroLevel: <<echo level, zerolog level>> of a zerolog level.
MatchZeroLevel(level) ==
    IF level \in ZeroLevels THEN <<zeroLevels(level), level>> ELSE <<OFF, NoLevel>>

\* ------------------------------------------------------------------ options
\* A Setter is a record: [kind |-> "field", name, value], [kind |-> "level", level]
\* or [kind |-> "prefix", prefix]. Options is [context, level, prefix], where
\* context is the zerolog logger under construction: [level, ctx], ctx the
\* sequence of <<key, value>> fields of its context.
WithField(name, value) == [kind |-> "field", name |-> name, value |-> value]

applySetter(opts, set) ==
    CASE set.kind = "field" ->
           [opts EXCEPT !.context.ctx = Append(@, <<set.name, set.value>>)]
      [] set.kind = "level" ->
           [opts EXCEPT !.context.level = MatchEchoLevel(set.level)[1],
                        !.level = MatchEchoLevel(set.level)[2]]
      [] set.kind = "prefix" ->
           [opts EXCEPT !.context.ctx = Append(@, <<"prefix", set.prefix>>),
                        !.prefix = set.prefix]

RECURSIVE applySetters(_, _)
applySetters(opts, setters) ==
    IF setters = << >> THEN opts
    ELSE applySetters(applySetter(opts, Head(setters)), Tail(setters))

\* newOptions(log, setters): the host level starts as the translation of the
\* instance's level, the context as log.With(), then the setters in order.
newOptions(log, setters) ==
    applySetters([context |-> log, level |-> MatchZeroLevel(log.level)[1], prefix |-> ""],
                 setters)

\* From(log, setters...) = newLogger(log, setters).
From(log, setters) ==
    LET opts == newOptions(log, setters)
    IN [log |-> opts.context, level |-> opts.level, prefix |-> opts.prefix,
        setters |-> setters]

\* ------------------------------------------------------------------ zerolog
\* Mutant: an event at the logger's own level is dropped.
shouldStrict(log, lvl, global) == lvl > log.level /\ lvl >= global

\* Logger.should(lvl): an event at lvl is written only if lvl is at or above both
\* the logger's own level and the process-wide level.
should(log, lvl, global) == lvl >= log.level /\ lvl >= global

\* Logger.WithLevel(level), for a level from trace to no-level: an event when
\* should(level) holds. NoEvent stands for the nil event, on which every later
\* call (Str, Dict, Send) does nothing.
NoEvent == [nil |-> TRUE]

WithLevel(log, level, global) ==
    IF ~should(log, level, global) THEN NoEvent
    ELSE [level |-> level, ctx |-> log.ctx, err |-> "nil"]

\* Mutant: the error field is left out of the event.
ErrWithoutField(log, err, global) ==
    IF ~should(log, ErrorLevel, global) THEN NoEvent
    ELSE [level |-> ErrorLevel, ctx |-> log.ctx, err |-> "nil"]

\* Logger.Err(err) for a non-nil err: an event at error level with the error field.
Err(log, err, global) ==
    IF ~should(log, ErrorLevel, global) THEN NoEvent
    ELSE [level |-> ErrorLevel, ctx |-> log.ctx, err |-> err]

\* Logger.WithContext(ctx): the zerolog logger (of a level from trace to
\* no-level) is stored in the context by value. NoZerolog is a context without one.
NoZerolog == [nil |-> TRUE]

WithContext(logger) == logger.log

\* ------------------------------------------------------------------ state
Reqs == {"r1", "r2"}
Paths == {"/", "/skip"}
HeaderIDs == {"", "a"}
ResponseIDs == {"", "b"}
Errors == {"nil", "error"}

\* The fields of the request event the middleware always adds.
StdFields == {"remote_ip", "host", "method", "uri", "user_agent", "status",
              "referer", "latency", "latency_human", "bytes_in", "bytes_out"}

VARIABLES
    config,       \* the Config the middleware was built with (defaults applied)
    globalLevel,  \* zerolog's process-wide minimum level
    loggers,      \* heap of *Logger: "base" is config.Logger, r a request's clone
    sink,         \* the events written, in order
    now,          \* the clock
    pc,           \* where each request is in the middleware
    rq,           \* each request's locals (req, res, c, id, logger, err, ...)
    trace,        \* per request, the steps taken so far, in order
    handle,       \* the *Logger each variable of a caller of the Logger API holds
    lg,           \* heap of the Loggers built through New and Clone
    arrays,       \* heap of the backing arrays of the setter slices
    writers,      \* what each io.Writer has received, in order
    calls,        \* number of API calls made so far
    lv            \* a caller of the level functions: its inputs and results so far

mwVars == <<config, globalLevel, loggers, sink, now, pc, rq, trace>>
apiVars == <<handle, lg, arrays, writers, calls>>

vars == <<mwVars, apiVars, lv>>

\* ------------------------------------------------------------------ levels
\* Mutant: the more permissive of the two levels.
GetEffectiveZerologLevelMin(log, global) ==
    IF log.level < global THEN log.level ELSE global

\* GetEffectiveZerologLevel(logger): the stricter of the instance's level and the
\* process-wide level.
GetEffectiveZerologLevel(log, global) ==
    IF log.level > global THEN log.level ELSE global

\* The levels the functions are called with: every log.Lvl from 0 to 6 (1 to 5
\* are DEBUG to OFF) and every zerolog.Level from trace to no-level (fatal and
\* panic, between error and no-level, are in no table).
HostInputs == (DEBUG - 1)..(OFF + 1)
EngineInputs == TraceLevel..NoLevel

\* No level function has been called.
idleLv == [host |-> DEBUG, inst |-> TraceLevel, pair |-> << >>, back |-> << >>,
           again |-> << >>, zpair |-> << >>, eff |-> << >>]

NoLevelCalls == lv = idleLv

\* zlvl, elvl := MatchEchoLevel(host)
ToEngine ==
    /\ lv.pair = << >>
    /\ lv' = [lv EXCEPT !.pair = MatchEchoLevel(lv.host)]
    /\ UNCHANGED <<mwVars, apiVars>>

\* elvl, zlvl := MatchZeroLevel(zlvl), on the engine level just obtained
ToHost ==
    /\ lv.pair /= << >> /\ lv.back = << >>
    /\ lv' = [lv EXCEPT !.back = MatchZeroLevel(lv.pair[1])]
    /\ UNCHANGED <<mwVars, apiVars>>

\* zlvl, elvl := MatchEchoLevel(elvl), on the host level just obtained
ToEngineAgain ==
    /\ lv.back /= << >> /\ lv.again = << >>
    /\ lv' = [lv EXCEPT !.again = MatchEchoLevel(lv.back[1])]
    /\ UNCHANGED <<mwVars, apiVars>>

\* elvl, zlvl := MatchZeroLevel(inst)
FromEngine ==
    /\ lv.zpair = << >>
    /\ lv' = [lv EXCEPT !.zpair = MatchZeroLevel(lv.inst)]
    /\ UNCHANGED <<mwVars, apiVars>>

\* GetEffectiveZerologLevel(zerolog.New(buf).Level(inst))
Effective ==
    /\ lv.eff = << >>
    /\ lv' = [lv EXCEPT !.eff =
                 <<GetEffectiveZerologLevel([level |-> lv.inst, ctx |-> << >>],
                                            globalLevel)>>]
    /\ UNCHANGED <<mwVars, apiVars>>

NextLevels == ToEngine \/ ToHost \/ ToEngineAgain \/ FromEngine \/ Effective

\* An address of the heap that holds no Logger.
NoLogger == [nil |-> TRUE]

\* ------------------------------------------------------------------ logger API
\* Bound of the API runs: calls made.
MaxCalls == 5

Handles == {"l", "c1", "c2"}
Writers == {"w1", "w2"}
NoSetter == [nil |-> TRUE]

\* WithLevel(level) and WithPrefix(prefix) of options.go, as Setter records.
WithLevelOpt(level) == [kind |-> "level", level |-> level]
WithPrefix(prefix) == [kind |-> "prefix", prefix |-> prefix]

\* A slice is [arr, len]: arr the index of its backing array in mem (0 for the
\* nil slice), len its length; the array's length is the slice's capacity.
NilSlice == [arr |-> 0, len |-> 0]
cap(mem, sl) == IF sl.arr = 0 THEN 0 ELSE Len(mem[sl.arr])
elems(mem, sl) == IF sl.len = 0 THEN << >> ELSE SubSeq(mem[sl.arr], 1, sl.len)

\* Capacity of the array append allocates when the old one is too small: twice
\* the old capacity, or the needed length if that is larger, rounded up to an
\* allocation size class (for one-word elements).
SizeClasses == {1, 2, 3, 4, 6, 8, 10, 12, 14, 16}
growcap(old, needed) ==
    LET want == IF needed > 2 * old THEN needed ELSE 2 * old
    IN CHOOSE c \in SizeClasses :
          c >= want /\ \A d \in SizeClasses : d >= want => c <= d

\* append(sl, xs...): in place, in the array sl shares with every other slice of
\* it, when the capacity allows; else into a new array. The result is the new
\* memory and the new slice.
append(mem, sl, xs) ==
    LET n == sl.len + Len(xs)
    IN IF xs = << >> THEN [mem |-> mem, sl |-> sl]
       ELSE IF n <= cap(mem, sl)
       THEN [mem |-> [mem EXCEPT ![sl.arr] =
                         [i \in 1..Len(@) |->
                             IF i > sl.len /\ i <= n THEN xs[i - sl.len] ELSE @[i]]],
             sl |-> [arr |-> sl.arr, len |-> n]]
       ELSE [mem |-> Append(mem,
                        [i \in 1..growcap(cap(mem, sl), n) |->
                            IF i <= sl.len THEN mem[sl.arr][i]
                            ELSE IF i <= n THEN xs[i - sl.len] ELSE NoSetter]),
             sl |-> [arr |-> Len(mem) + 1, len |-> n]]

\* newOptions(out, setters): a zerolog logger on out at zerolog.New's level, the
\* host level the translation of zerolog.Level(0), then the setters in order.
newOptionsOut(out, setters) ==
    applySetters([context |-> [level |-> TraceLevel, ctx |-> << >>, w |-> out],
                  level |-> MatchZeroLevel(DebugLevel)[1], prefix |-> ""],
                 setters)

\* New(out, setters...): the Logger keeps the slice it is given.
New(mem, out, sl) ==
    LET opts == newOptionsOut(out, elems(mem, sl))
    IN [log |-> opts.context, out |-> out, level |-> opts.level,
        prefix |-> opts.prefix, setters |-> sl]

\* No Logger has been built through the API.
NoAPI ==
    /\ handle = [h \in Handles |-> "nil"]
    /\ lg = [a \in Handles |-> NoLogger]
    /\ arrays = << >>
    /\ writers = [w \in Writers |-> << >>]
    /\ calls = 0

\* The setters the first Logger is built with.
InitSetters == {<< >>, <<WithLevelOpt(WARN), WithField("app", "x")>>}

\* l := New(w1, setters...): the variadic arguments are a fresh array.
InitAPI ==
    \E ss \in InitSetters :
        LET mem == IF ss = << >> THEN << >> ELSE <<ss>>
            sl == IF ss = << >> THEN NilSlice ELSE [arr |-> 1, len |-> Len(ss)]
        IN /\ handle = [h \in Handles |-> IF h = "l" THEN "l" ELSE "nil"]
           /\ lg = [a \in Handles |-> IF a = "l" THEN New(mem, "w1", sl) ELSE NoLogger]
           /\ arrays = mem
           /\ writers = [w \in Writers |-> << >>]
           /\ calls = 0

\* A call through the variable h; no request is in flight meanwhile.
Called(h) ==
    /\ handle[h] /= "nil"
    /\ calls < MaxCalls
    /\ calls' = calls + 1
    /\ UNCHANGED <<mwVars, lv>>

\* l.SetLevel(level)
SetLevel(h, level) ==
    /\ Called(h)
    /\ LET a == handle[h]
           zlvl == MatchEchoLevel(level)[1]
           elvl == MatchEchoLevel(level)[2]
           ap == append(arrays, lg[a].setters, <<WithLevelOpt(elvl)>>)
       IN /\ arrays' = ap.mem
          /\ lg' = [lg EXCEPT ![a] = [@ EXCEPT !.setters = ap.sl, !.level = elvl,
                                               !.log.level = zlvl]]
    /\ UNCHANGED <<handle, writers>>

\* Mutant: the setters are replayed on top of the Logger's current engine
\* instance instead of a new one.
SetPrefixOnCurrent(h, newPrefix) ==
    /\ Called(h)
    /\ LET a == handle[h]
           ap == append(arrays, lg[a].setters, <<WithPrefix(newPrefix)>>)
           opts == applySetters([context |-> lg[a].log, level |-> lg[a].level,
                                 prefix |-> ""],
                                elems(ap.mem, ap.sl))
       IN /\ arrays' = ap.mem
          /\ lg' = [lg EXCEPT ![a] = [@ EXCEPT !.setters = ap.sl,
                                               !.prefix = newPrefix,
                                               !.log = opts.context]]
    /\ UNCHANGED <<handle, writers>>

\* l.SetPrefix(newPrefix): the engine instance is rebuilt from the setters.
SetPrefix(h, newPrefix) ==
    /\ Called(h)
    /\ LET a == handle[h]
           ap == append(arrays, lg[a].setters, <<WithPrefix(newPrefix)>>)
           opts == newOptionsOut(lg[a].out, elems(ap.mem, ap.sl))
       IN /\ arrays' = ap.mem
          /\ lg' = [lg EXCEPT ![a] = [@ EXCEPT !.setters = ap.sl,
                                               !.prefix = newPrefix,
                                               !.log = opts.context]]
    /\ UNCHANGED <<handle, writers>>

\* Mutant: the engine instance keeps writing to its old writer.
SetOutputFieldOnly(h, newOut) ==
    /\ Called(h)
    /\ lg' = [lg EXCEPT ![handle[h]] = [@ EXCEPT !.out = newOut]]
    /\ UNCHANGED <<handle, arrays, writers>>

\* l.SetOutput(newOut)
SetOutput(h, newOut) ==
    /\ Called(h)
    /\ lg' = [lg EXCEPT ![handle[h]] = [@ EXCEPT !.out = newOut, !.log.w = newOut]]
    /\ UNCHANGED <<handle, arrays, writers>>

\* Mutant: Clone hands back the receiver itself.
CloneSame(h, c, extra) ==
    /\ Called(h)
    /\ handle[c] = "nil"
    /\ handle' = [handle EXCEPT ![c] = handle[h]]
    /\ UNCHANGED <<lg, arrays, writers>>

\* c := l.Clone(extra...)
Clone(h, c, extra) ==
    /\ Called(h)
    /\ handle[c] = "nil"
    /\ LET l == lg[handle[h]]
           ap == append(arrays, l.setters, extra)
       IN /\ arrays' = ap.mem
          /\ lg' = [lg EXCEPT ![c] = New(ap.mem, l.out, ap.sl)]
    /\ handle' = [handle EXCEPT ![c] = c]
    /\ UNCHANGED writers

\* l.Debug / l.Info / l.Warn / l.Error: one line on the writer of the engine
\* instance, unless the level filter drops the event.
Log(h, sev) ==
    /\ Called(h)
    /\ LET log == lg[handle[h]].log
           evt == WithLevel(log, sev, globalLevel)
       IN writers' = IF evt = NoEvent THEN writers
                     ELSE [writers EXCEPT ![log.w] =
                              Append(@, [level |-> evt.level, ctx |-> evt.ctx])]
    /\ UNCHANGED <<handle, lg, arrays>>

\* l.Print / l.Printf / l.Printj: an event without an engine level, tagged with
\* the field level "-", on the writer of the engine instance.
Printf(h) ==
    /\ Called(h)
    /\ LET log == lg[handle[h]].log
           evt == WithLevel(log, NoLevel, globalLevel)
       IN writers' = IF evt = NoEvent THEN writers
                     ELSE [writers EXCEPT ![log.w] =
                              Append(@, [level |-> evt.level,
                                         ctx |-> Append(evt.ctx, <<"level", "-">>)])]
    /\ UNCHANGED <<handle, lg, arrays>>

SetLevelArgs == {ERROR}
Prefixes == {"p"}
Severities == {DebugLevel, InfoLevel, WarnLevel, ErrorLevel}
Extras(c) == {<< >>, <<WithField("clone", c)>>}

\* The variable the next clone is assigned to.
Fresh ==
    IF handle["c1"] = "nil" THEN {"c1"}
    ELSE IF handle["c2"] = "nil" THEN {"c2"} ELSE {}

NextLogger ==
    \E h \in Handles :
        \/ \E level \in SetLevelArgs : SetLevel(h, level)
        \/ \E p \in Prefixes : SetPrefix(h, p)
        \/ \E w \in Writers : SetOutput(h, w)
        \/ \E c \in Fresh : \E extra \in Extras(c) : Clone(h, c, extra)
        \/ \E sev \in Severities : Log(h, sev)

\* The levels a Logger that prints is set to, and its calls.
PrintLevels == {INFO, OFF}

NextPrint ==
    \E h \in Handles :
        \/ \E level \in PrintLevels : SetLevel(h, level)
        \/ \E sev \in Severities : Log(h, sev)
        \/ Printf(h)

\* Middleware(config): the defaults applied once, when the middleware is built.
Middleware(cfg) ==
    [cfg EXCEPT !.RequestIDKey = IF @ = "" THEN "id" ELSE @,
                !.RequestIDHeader = IF @ = "" THEN "X-Request-ID" ELSE @]

\* The configurations the middleware is checked with.
Configs ==
    [Skipper : {"default", "path"},
     AfterNextSkipper : {"default", "redirect"},
     BeforeNext : BOOLEAN,
     Enricher : BOOLEAN,
     AfterNextEnricher : BOOLEAN,
     RequestIDHeader : {""},
     RequestIDKey : {""},
     NestKey : {"", "request"},
     HandleError : BOOLEAN,
     RequestLatencyLimit : {0, 1},
     RequestLatencyLevel : {DebugLevel, WarnLevel}]

\* Levels of the zerolog instance inside config.Logger: New starts at trace,
\* SetLevel moves it to the translation of an echo level.
LoggerLevels == {TraceLevel, WarnLevel, NoLevel}
GlobalLevels == {TraceLevel, WarnLevel}

\* A request that has not arrived yet.
idleRq ==
    [path |-> "/", hdrReq |-> "", hdrRes |-> "", start |-> 0, id |-> "",
     cloned |-> FALSE, logger |-> "base", ctxLogger |-> NoZerolog, wrapped |-> FALSE,
     err |-> "nil", ret |-> "nil", status |-> StatusOK, committed |-> FALSE,
     userID |-> "", seenLogger |-> "none", seenCtx |-> << >>, afterSkipped |-> FALSE,
     latency |-> 0, nextCalls |-> 0, errorCalls |-> 0, beforeCalls |-> 0]

InitWith(cfgs, lvls, globals, arriving) ==
    /\ config \in {Middleware(c) : c \in cfgs}
    /\ globalLevel \in globals
    /\ \E lvl \in lvls :
          loggers = [a \in {"base"} \cup Reqs |->
                        IF a = "base"
                        THEN From([level |-> lvl, ctx |-> << >>], << >>)
                        ELSE NoLogger]
    /\ sink = << >>
    /\ now = 0
    /\ pc = [r \in Reqs |-> IF r \in arriving THEN "idle" ELSE "off"]
    /\ rq = [r \in Reqs |-> idleRq]
    /\ trace = [r \in Reqs |-> << >>]

Init == InitWith(Configs, LoggerLevels, GlobalLevels, {"r1"}) /\ NoAPI /\ NoLevelCalls

\* ------------------------------------------------------------------ hooks
\* config.Skipper: DefaultSkipper never skips; the configured one skips "/skip".
Skipper(cfg, r) == cfg.Skipper = "path" /\ r.path = "/skip"

\* config.AfterNextSkipper: DefaultSkipper never skips; the configured one skips
\* a response whose status is a redirect.
AfterNextSkipper(cfg, r) ==
    cfg.AfterNextSkipper = "redirect" /\ r.status = StatusMovedPermanently

\* config.Enricher: the fields the pre-handler enricher adds to the context.
Enricher(r, ctx) == Append(ctx, <<"test", "test">>)

\* config.AfterNextEnricher: adds a marker, the status it sees on the response
\* and the user id it finds in the context store, if any.
AfterNextEnricher(r, ctx) ==
    LET marked == Append(Append(ctx, <<"after", "yes">>), <<"seen_status", r.status>>)
    IN IF r.userID = "" THEN marked ELSE Append(marked, <<"user_id", r.userID>>)

\* Mutant: the error handler is counted but writes no status.
cErrorCountsOnly(r) == [r EXCEPT !.errorCalls = @ + 1]

\* c.Error(err): the centralized error handler answers with a 500 unless the
\* response is already committed.
cError(r) ==
    [r EXCEPT !.errorCalls = @ + 1,
              !.status = IF r.committed THEN @ ELSE StatusInternalServerError,
              !.committed = TRUE]

\* next(c): the downstream handler. It sleeps d ticks, may redirect, may store a
\* user id in the context, and returns err. It sees the logger of the context it
\* is given: the wrapper's logger, or none on the unwrapped context; seenCtx is
\* the fields of what it logs through that logger.
next(r, err, redirect, user) ==
    [r EXCEPT !.nextCalls = @ + 1,
              !.err = err,
              !.status = IF redirect THEN StatusMovedPermanently ELSE @,
              !.committed = redirect,
              !.userID = user,
              !.seenLogger = IF r.wrapped THEN r.logger ELSE "none",
              !.seenCtx = IF r.wrapped THEN loggers[r.logger].log.ctx ELSE << >>]

\* ------------------------------------------------------------------ the request
Step(r, from, to, label) ==
    /\ pc[r] = from
    /\ UNCHANGED <<apiVars, lv>>
    /\ pc' = [pc EXCEPT ![r] = to]
    /\ trace' = [trace EXCEPT ![r] = IF label = "" THEN @ ELSE Append(@, label)]

\* A request reaches the middleware.
Arrive(r) ==
    /\ Step(r, "idle", "skipper", "")
    /\ \E p \in Paths, h \in HeaderIDs, o \in ResponseIDs :
          rq' = [rq EXCEPT ![r] = [@ EXCEPT !.path = p, !.hdrReq = h, !.hdrRes = o]]
    /\ UNCHANGED <<config, globalLevel, loggers, sink, now>>

\* Mutant: the skip predicate's result is ignored.
CheckSkipperIgnored(r) ==
    /\ Step(r, "skipper", "derive", "skipper")
    /\ UNCHANGED <<config, globalLevel, loggers, sink, now, rq>>

\* if config.Skipper(c) { return next(c) }: the check.
CheckSkipper(r) ==
    /\ Step(r, "skipper", IF Skipper(config, rq[r]) THEN "skipnext" ELSE "derive",
            "skipper")
    /\ UNCHANGED <<config, globalLevel, loggers, sink, now, rq>>

\* Mutant: the pre-skipped path returns without calling the handler.
SkippedNextBypassed(r) ==
    /\ Step(r, "skipnext", "done", "")
    /\ UNCHANGED <<config, globalLevel, loggers, sink, now, rq>>

\* return next(c) on the pre-skipped path: the handler's result is returned.
SkippedNext(r) ==
    /\ Step(r, "skipnext", "done", "next")
    /\ \E e \in Errors, d \in 0..MaxSleep, redirect \in BOOLEAN, user \in {"", "123"} :
          /\ now' = now + d
          /\ rq' = [rq EXCEPT ![r] =
                       LET after == next(@, e, redirect, user)
                       IN [after EXCEPT !.ret = after.err]]
    /\ UNCHANGED <<config, globalLevel, loggers, sink>>

\* Mutant: the header already set on the response is preferred.
requestIDResponseFirst(cfg, r) == IF r.hdrRes /= "" THEN r.hdrRes ELSE r.hdrReq

\* start, the request id and the logger derived for it.
requestID(cfg, r) == IF r.hdrReq /= "" THEN r.hdrReq ELSE r.hdrRes

\* Mutant: the request-id field is added to the base logger itself.
DeriveLoggerShared(r) ==
    /\ Step(r, "derive", "enrich", "id")
    /\ LET id == requestID(config, rq[r])
       IN /\ rq' = [rq EXCEPT ![r] = [@ EXCEPT !.start = now, !.id = id,
                                               !.cloned = (id /= "")]]
          /\ loggers' = IF id /= ""
                        THEN [loggers EXCEPT !["base"] =
                                 From(@.log, <<WithField(config.RequestIDKey, id)>>)]
                        ELSE loggers
    /\ UNCHANGED <<config, globalLevel, sink, now>>

DeriveLogger(r) ==
    /\ Step(r, "derive", "enrich", "id")
    /\ LET id == requestID(config, rq[r])
       IN /\ rq' = [rq EXCEPT ![r] = [@ EXCEPT !.start = now, !.id = id,
                                               !.cloned = (id /= ""),
                                               !.logger = IF id /= "" THEN r ELSE "base"]]
          /\ loggers' = IF id /= ""
                        THEN [loggers EXCEPT ![r] =
                                 From(loggers["base"].log,
                                      <<WithField(config.RequestIDKey, id)>>)]
                        ELSE loggers
    /\ UNCHANGED <<config, globalLevel, sink, now>>

\* Mutant: the enricher's context is adopted without cloning first.
EnrichShared(r) ==
    /\ Step(r, "enrich", "attach", IF config.Enricher THEN "enricher" ELSE "")
    /\ IF config.Enricher
       THEN LET a == rq[r].logger
            IN /\ loggers' = [loggers EXCEPT ![a] =
                                 [@ EXCEPT !.log.ctx = Enricher(rq[r], @)]]
               /\ rq' = [rq EXCEPT ![r] = [@ EXCEPT !.cloned = TRUE]]
       ELSE UNCHANGED <<loggers, rq>>
    /\ UNCHANGED <<config, globalLevel, sink, now>>

\* if config.Enricher != nil: clone unless cloned, then adopt the enricher's context.
Enrich(r) ==
    /\ Step(r, "enrich", "attach", IF config.Enricher THEN "enricher" ELSE "")
    /\ IF config.Enricher
       THEN LET a == IF rq[r].cloned THEN rq[r].logger ELSE r
                cl == IF rq[r].cloned THEN loggers[a]
                      ELSE From(loggers[rq[r].logger].log, << >>)
            IN /\ loggers' = [loggers EXCEPT ![a] =
                                 [cl EXCEPT !.log.ctx = Enricher(rq[r], cl.log.ctx)]]
               /\ rq' = [rq EXCEPT ![r] = [@ EXCEPT !.cloned = TRUE, !.logger = a]]
       ELSE UNCHANGED <<loggers, rq>>
    /\ UNCHANGED <<config, globalLevel, sink, now>>

\* Mutant: the BeforeNext hook is not called.
AttachContextSkipsBeforeNext(r) ==
    /\ Step(r, "attach", "next", "attach")
    /\ rq' = [rq EXCEPT ![r] =
                 [@ EXCEPT !.ctxLogger = WithContext(loggers[rq[r].logger]),
                           !.wrapped = TRUE]]
    /\ UNCHANGED <<config, globalLevel, loggers, sink, now>>

\* Mutant: the base logger, not the derived one, is stored in the context.
AttachContextBase(r) ==
    /\ Step(r, "attach", "before", "attach")
    /\ rq' = [rq EXCEPT ![r] =
                 [@ EXCEPT !.ctxLogger = WithContext(loggers["base"]),
                           !.wrapped = TRUE]]
    /\ UNCHANGED <<config, globalLevel, loggers, sink, now>>

\* c.SetRequest(req.WithContext(logger.WithContext(ctx))); c = NewContext(c, logger)
AttachContext(r) ==
    /\ Step(r, "attach", "before", "attach")
    /\ rq' = [rq EXCEPT ![r] =
                 [@ EXCEPT !.ctxLogger = WithContext(loggers[rq[r].logger]),
                           !.wrapped = TRUE]]
    /\ UNCHANGED <<config, globalLevel, loggers, sink, now>>

\* if config.BeforeNext != nil { config.BeforeNext(c) }
BeforeNext(r) ==
    /\ Step(r, "before", "next", IF config.BeforeNext THEN "before" ELSE "")
    /\ rq' = [rq EXCEPT ![r] =
                 [@ EXCEPT !.beforeCalls = IF config.BeforeNext THEN @ + 1 ELSE @]]
    /\ UNCHANGED <<config, globalLevel, loggers, sink, now>>

\* err = next(c)
CallNext(r) ==
    /\ Step(r, "next", "error", "next")
    /\ \E e \in Errors, d \in 0..MaxSleep, redirect \in BOOLEAN, user \in {"", "123"} :
          /\ now' = now + d
          /\ rq' = [rq EXCEPT ![r] = next(@, e, redirect, user)]
    /\ UNCHANGED <<config, globalLevel, loggers, sink>>

\* Mutant: the error is forwarded whatever HandleError is.
HandleErrorAlways(r) ==
    /\ Step(r, "error", "afterskipper", "")
    /\ rq' = [rq EXCEPT ![r] = IF @.err /= "nil" THEN cError(@) ELSE @]
    /\ UNCHANGED <<config, globalLevel, loggers, sink, now>>

\* Mutant: the error is never forwarded.
HandleErrorNever(r) ==
    /\ Step(r, "error", "afterskipper", "")
    /\ UNCHANGED <<config, globalLevel, loggers, sink, now, rq>>

\* Mutant: the error is forwarded only when the post-handler skipper will not skip.
HandleErrorUnlessSkipped(r) ==
    /\ Step(r, "error", "afterskipper", "")
    /\ rq' = [rq EXCEPT ![r] =
                 IF @.err /= "nil" /\ config.HandleError /\ ~AfterNextSkipper(config, @)
                 THEN cError(@) ELSE @]
    /\ UNCHANGED <<config, globalLevel, loggers, sink, now>>

\* if err != nil { if config.HandleError { c.Error(err) } }
HandleError(r) ==
    /\ Step(r, "error", "afterskipper", "")
    /\ rq' = [rq EXCEPT ![r] =
                 IF @.err /= "nil" /\ config.HandleError THEN cError(@) ELSE @]
    /\ UNCHANGED <<config, globalLevel, loggers, sink, now>>

\* Mutant: the post-handler skip predicate's result is ignored.
CheckAfterNextSkipperIgnored(r) ==
    /\ Step(r, "afterskipper", "afterenrich", "afterskipper")
    /\ UNCHANGED <<config, globalLevel, loggers, sink, now, rq>>

\* if config.AfterNextSkipper(c) { return err }
CheckAfterNextSkipper(r) ==
    /\ LET skip == AfterNextSkipper(config, rq[r])
       IN /\ Step(r, "afterskipper", IF skip THEN "done" ELSE "afterenrich",
                  "afterskipper")
          /\ rq' = [rq EXCEPT ![r] =
                       IF skip THEN [@ EXCEPT !.afterSkipped = TRUE, !.ret = rq[r].err]
                       ELSE @]
    /\ UNCHANGED <<config, globalLevel, loggers, sink, now>>

\* Mutant: the post-handler enricher's context is not adopted.
AfterNextEnrichDropped(r) ==
    /\ Step(r, "afterenrich", "emit",
            IF config.AfterNextEnricher THEN "afterenricher" ELSE "")
    /\ UNCHANGED <<config, globalLevel, loggers, sink, now, rq>>

\* The post-handler enricher: clone unless cloned, then adopt its context.
AfterNextEnrich(r) ==
    /\ Step(r, "afterenrich", "emit",
            IF config.AfterNextEnricher THEN "afterenricher" ELSE "")
    /\ IF config.AfterNextEnricher
       THEN LET a == IF rq[r].cloned THEN rq[r].logger ELSE r
                cl == IF rq[r].cloned THEN loggers[a]
                      ELSE From(loggers[rq[r].logger].log, << >>)
            IN /\ loggers' = [loggers EXCEPT ![a] =
                                 [cl EXCEPT !.log.ctx = AfterNextEnricher(rq[r], cl.log.ctx)]]
               /\ rq' = [rq EXCEPT ![r] = [@ EXCEPT !.cloned = TRUE, !.logger = a]]
       ELSE UNCHANGED <<loggers, rq>>
    /\ UNCHANGED <<config, globalLevel, sink, now>>

\* Mutant: an error is logged at the logger's own level.
mainEvtAtLoggerLevel(cfg, log, err, latency, global) ==
    IF err /= "nil" THEN [WithLevel(log, log.level, global) EXCEPT !.err = err]
    ELSE IF cfg.RequestLatencyLimit /= 0 /\ latency > cfg.RequestLatencyLimit
         THEN WithLevel(log, cfg.RequestLatencyLevel, global)
         ELSE WithLevel(log, log.level, global)

\* Mutant: a latency equal to the limit escalates too.
mainEvtAtLeast(cfg, log, err, latency, global) ==
    IF err /= "nil" THEN Err(log, err, global)
    ELSE IF cfg.RequestLatencyLimit /= 0 /\ latency >= cfg.RequestLatencyLimit
         THEN WithLevel(log, cfg.RequestLatencyLevel, global)
         ELSE WithLevel(log, log.level, global)

\* The event of the request: error, else escalated, else the logger's own level.
mainEvt(cfg, log, err, latency, global) ==
    IF err /= "nil" THEN Err(log, err, global)
    ELSE IF cfg.RequestLatencyLimit /= 0 /\ latency > cfg.RequestLatencyLimit
         THEN WithLevel(log, cfg.RequestLatencyLevel, global)
         ELSE WithLevel(log, log.level, global)

\* The keys zerolog itself writes on the event: the level, unless the event has
\* no level, and the error of Err(err).
engineKeys(evt) ==
    (IF evt.level /= NoLevel THEN {"level"} ELSE {})
        \cup (IF evt.err /= "nil" THEN {"error"} ELSE {})

\* Mutant: the standard fields are written on the event whatever NestKey is.
requestEventFlat(cfg, r, evt, latency) ==
    [req |-> r, level |-> evt.level, ctx |-> evt.ctx, err |-> evt.err,
     top |-> engineKeys(evt) \cup StdFields,
     nested |-> {},
     status |-> rq[r].status, latency |-> latency]

\* The standard fields, on the event itself or in a dict under NestKey.
requestEvent(cfg, r, evt, latency) ==
    [req |-> r, level |-> evt.level, ctx |-> evt.ctx, err |-> evt.err,
     top |-> engineKeys(evt)
                \cup (IF cfg.NestKey /= "" THEN {cfg.NestKey} ELSE StdFields),
     nested |-> IF cfg.NestKey /= "" THEN StdFields ELSE {},
     status |-> rq[r].status, latency |-> latency]

\* Mutant: an error already forwarded to the error handler is not returned.
EmitSwallowsHandled(r) ==
    /\ Step(r, "emit", "done", "emit")
    /\ LET latency == now - rq[r].start
           evt == mainEvt(config, loggers[rq[r].logger].log, rq[r].err, latency,
                          globalLevel)
       IN /\ sink' = IF evt = NoEvent THEN sink
                     ELSE Append(sink, requestEvent(config, r, evt, latency))
          /\ rq' = [rq EXCEPT ![r] =
                       [@ EXCEPT !.latency = latency,
                                 !.ret = IF config.HandleError THEN "nil" ELSE rq[r].err]]
    /\ UNCHANGED <<config, globalLevel, loggers, now>>

\* stop, latency, the event with its fields, Send, return err.
Emit(r) ==
    /\ Step(r, "emit", "done", "emit")
    /\ LET latency == now - rq[r].start
           evt == mainEvt(config, loggers[rq[r].logger].log, rq[r].err, latency,
                          globalLevel)
       IN /\ sink' = IF evt = NoEvent THEN sink
                     ELSE Append(sink, requestEvent(config, r, evt, latency))
          /\ rq' = [rq EXCEPT ![r] = [@ EXCEPT !.latency = latency, !.ret = rq[r].err]]
    /\ UNCHANGED <<config, globalLevel, loggers, now>>

Next ==
    \E r \in Reqs :
        \/ Arrive(r)
        \/ CheckSkipper(r)
        \/ SkippedNext(r)
        \/ DeriveLogger(r)
        \/ Enrich(r)
        \/ AttachContext(r)
        \/ BeforeNext(r)
        \/ CallNext(r)
        \/ HandleError(r)
        \/ CheckAfterNextSkipper(r)
        \/ AfterNextEnrich(r)
        \/ Emit(r)

Spec == Init /\ [][Next]_vars

\* Two requests in flight in the same middleware instance, their steps interleaved.
ConcConfigs ==
    {c \in Configs : /\ c.Skipper = "path" /\ c.AfterNextSkipper = "default"
                     /\ ~c.BeforeNext /\ ~c.HandleError /\ c.NestKey = ""
                     /\ c.AfterNextEnricher
                     /\ c.RequestLatencyLimit = 0
                     /\ c.RequestLatencyLevel = DebugLevel}

InitConc ==
    InitWith(ConcConfigs, {TraceLevel}, {TraceLevel}, Reqs) /\ NoAPI /\ NoLevelCalls

SpecConc == InitConc /\ [][Next]_vars

\* One request through a middleware whose logger is at info and whose slow
\* requests, those above one tick, are logged at warn.
LatencyConfigs ==
    {c \in Configs : /\ c.Skipper = "path" /\ c.AfterNextSkipper = "default"
                     /\ ~c.BeforeNext /\ ~c.Enricher /\ ~c.AfterNextEnricher
                     /\ c.RequestLatencyLimit = 1
                     /\ c.RequestLatencyLevel = WarnLevel}

InitLatency ==
    InitWith(LatencyConfigs, {InfoLevel}, GlobalLevels, {"r1"}) /\ NoAPI /\ NoLevelCalls

SpecLatency == InitLatency /\ [][Next]_vars

\* The Logger API called on a Logger and its clones, outside any request.
InitLogger ==
    /\ InitWith({c \in ConcConfigs : c.Enricher}, {TraceLevel}, GlobalLevels, {})
    /\ InitAPI /\ NoLevelCalls

SpecLogger == InitLogger /\ [][NextLogger]_vars

\* One Logger, set to levels, emitting and printing.
SpecPrint == InitLogger /\ [][NextPrint]_vars

\* The level functions called on every level, under every global level.
InitLevels ==
    /\ InitWith({c \in ConcConfigs : c.Enricher}, {TraceLevel}, EngineInputs, {})
    /\ NoAPI
    /\ \E x \in HostInputs, z \in EngineInputs :
          lv = [idleLv EXCEPT !.host = x, !.inst = z]

SpecLevels == InitLevels /\ [][NextLevels]_vars

\* ------------------------------------------------------------------ claims
\* The events of the sink that request r wrote.
EventsOf(r) == SelectSeq(sink, LAMBDA e : e.req = r)

IsPrefix(s, t) == Len(s) <= Len(t) /\ SubSeq(t, 1, Len(s)) = s

HasField(ctx, k, v) == \E i \in 1..Len(ctx) : ctx[i] = <<k, v>>

Done(r) == pc[r] = "done"
PreSkipped(r) == Skipper(config, rq[r])
PostSkipped(r) == ~PreSkipped(r) /\ rq[r].afterSkipped
Logged(r) == Done(r) /\ ~PreSkipped(r) /\ ~rq[r].afterSkipped

\* The severity the middleware asks for, and whether zerolog lets it through.
BaseLevel == loggers["base"].log.level
ChosenSeverity(r) ==
    IF rq[r].err /= "nil" THEN ErrorLevel
    ELSE IF config.RequestLatencyLimit /= 0 /\ rq[r].latency > config.RequestLatencyLimit
         THEN config.RequestLatencyLevel
         ELSE BaseLevel
Passes(lvl) == lvl >= BaseLevel /\ lvl >= globalLevel

\* C1 (as stated): every request that neither skipper skips writes exactly one
\* event, whatever the configuration and the handler's outcome.
C1_ExactlyOneEvent == \A r \in Reqs : Logged(r) => Len(EventsOf(r)) = 1

\* C1 (amended): such a request writes exactly one event when the severity chosen
\* for it is at or above the logger's minimum severity and the global level, and
\* none otherwise; never more than one.
C1_OneEventIfSeverityPasses ==
    \A r \in Reqs :
        /\ Len(EventsOf(r)) <= 1
        /\ Logged(r) => Len(EventsOf(r)) = IF Passes(ChosenSeverity(r)) THEN 1 ELSE 0

C1_Witness ==
    \E r \in Reqs : /\ Logged(r) /\ Len(EventsOf(r)) = 1 /\ rq[r].err /= "nil"
                    /\ config.NestKey /= "" /\ config.HandleError

\* C2: a pre-skipped request runs the handler once on the original context,
\* returns its result, writes nothing and has no logger attached.
C2_PreSkipBypasses ==
    \A r \in Reqs :
        (PreSkipped(r) /\ pc[r] \in {"skipnext", "done"}) =>
            /\ EventsOf(r) = << >>
            /\ ~rq[r].wrapped
            /\ rq[r].ctxLogger = NoZerolog
            /\ loggers[r] = NoLogger
            /\ rq[r].logger = "base"
            /\ Done(r) => /\ rq[r].nextCalls = 1
                          /\ rq[r].ret = rq[r].err
                          /\ rq[r].seenLogger = "none"

C2_Witness ==
    \E r \in Reqs : PreSkipped(r) /\ Done(r) /\ rq[r].err /= "nil" /\ rq[r].hdrReq /= ""

\* C3: a post-skipped request writes nothing and returns the handler's error,
\* though the derived logger was attached before the handler ran.
C3_PostSkipEmitsNothing ==
    \A r \in Reqs :
        (Done(r) /\ ~PreSkipped(r) /\ AfterNextSkipper(config, rq[r])) =>
            /\ EventsOf(r) = << >>
            /\ rq[r].ret = rq[r].err
            /\ rq[r].wrapped
            /\ rq[r].ctxLogger = loggers[rq[r].logger].log
            /\ rq[r].seenLogger = rq[r].logger
            /\ \E i, j \in 1..Len(trace[r]) :
                  i < j /\ trace[r][i] = "attach" /\ trace[r][j] = "next"

C3_Witness ==
    \E r \in Reqs : /\ Done(r) /\ ~PreSkipped(r) /\ AfterNextSkipper(config, rq[r])
                    /\ rq[r].err /= "nil" /\ rq[r].id /= ""

\* C4: an emitted event is at error severity after a handler error, else at
\* RequestLatencyLevel when a non-zero limit is exceeded, else at the logger's level.
C4_SeverityPriority ==
    \A i \in 1..Len(sink) :
        LET e == sink[i] r == e.req
        IN /\ e.latency = rq[r].latency
           /\ e.level = IF rq[r].err /= "nil" THEN ErrorLevel
                        ELSE IF config.RequestLatencyLimit /= 0
                                /\ e.latency > config.RequestLatencyLimit
                             THEN config.RequestLatencyLevel
                             ELSE BaseLevel
           /\ (config.RequestLatencyLimit = 0 /\ rq[r].err = "nil") => e.level = BaseLevel

C4_Witness ==
    \E i \in 1..Len(sink) :
        /\ sink[i].level = config.RequestLatencyLevel
        /\ sink[i].level /= BaseLevel
        /\ sink[i].latency > config.RequestLatencyLimit
        /\ rq[sink[i].req].err = "nil"

\* An event of request r at error severity that carries the handler's error.
ErrorLogged(r) ==
    \E i \in 1..Len(sink) :
        sink[i].req = r /\ sink[i].level = ErrorLevel /\ sink[i].err = rq[r].err

\* C5 (as stated): every request that is not pre-skipped and whose handler fails
\* has its error logged at error severity.
C5_ErrorAlwaysLogged ==
    \A r \in Reqs : (Done(r) /\ ~PreSkipped(r) /\ rq[r].err /= "nil") => ErrorLogged(r)

\* C5 (amended): a request that neither skipper skips and whose handler fails has
\* its error logged, once, at error severity, whenever error severity is at or
\* above the logger's minimum severity and the global level; whatever HandleError is.
C5_ErrorLoggedIfPasses ==
    \A r \in Reqs :
        (Logged(r) /\ rq[r].err /= "nil") =>
            IF Passes(ErrorLevel)
            THEN ErrorLogged(r) /\ Len(EventsOf(r)) = 1
            ELSE EventsOf(r) = << >>

C5_Witness ==
    \E r \in Reqs : Logged(r) /\ rq[r].err /= "nil" /\ ErrorLogged(r) /\ ~config.HandleError

\* C6: with HandleError false the error handler is never invoked and the
\* handler's error is returned.
C6_NoErrorHandlerByDefault ==
    ~config.HandleError =>
        \A r \in Reqs : rq[r].errorCalls = 0 /\ (Done(r) => rq[r].ret = rq[r].err)

C6_Witness ==
    \E r \in Reqs : /\ ~config.HandleError /\ Done(r) /\ ~PreSkipped(r)
                    /\ rq[r].err /= "nil" /\ rq[r].ret = "error"

\* C7: with HandleError true a failing, not pre-skipped request has the error
\* handler invoked exactly once, and the error is still returned.
C7_ErrorHandlerOnce ==
    \A r \in Reqs :
        /\ rq[r].errorCalls <= 1
        /\ (config.HandleError /\ ~PreSkipped(r) /\ rq[r].err /= "nil"
            /\ pc[r] \in {"afterskipper", "afterenrich", "emit", "done"}) =>
               rq[r].errorCalls = 1 /\ (Done(r) => rq[r].ret = rq[r].err)

C7_Witness ==
    \E r \in Reqs : /\ config.HandleError /\ Done(r) /\ rq[r].errorCalls = 1
                    /\ rq[r].ret = "error"

\* C8: on every path the middleware returns what the handler returned.
C8_ReturnsHandlerResult ==
    \A r \in Reqs : Done(r) => rq[r].nextCalls = 1 /\ rq[r].ret = rq[r].err

C8_Witness ==
    \E r \in Reqs : /\ Logged(r) /\ config.HandleError /\ rq[r].errorCalls = 1
                    /\ rq[r].ret = "error" /\ EventsOf(r) /= << >>

\* The steps of a request that is not pre-skipped, in the order of the claim; a
\* hook that is not configured has no step.
Opt(b, label) == IF b THEN <<label>> ELSE << >>
FullOrder ==
    <<"skipper", "id">> \o Opt(config.Enricher, "enricher") \o <<"attach">>
        \o Opt(config.BeforeNext, "before") \o <<"next", "afterskipper">>
        \o Opt(config.AfterNextEnricher, "afterenricher") \o <<"emit">>

\* The subsequence of t made of the labels in S.
Only(t, S) == SelectSeq(t, LAMBDA x : x \in S)

C10_AfterNextEnricher ==
    \A r \in Reqs :
        /\ (\E i \in 1..Len(trace[r]) : trace[r][i] = "afterenricher") =>
              /\ config.AfterNextEnricher
              /\ ~rq[r].afterSkipped /\ ~AfterNextSkipper(config, rq[r])
              /\ rq[r].nextCalls = 1
              /\ Only(trace[r], {"next", "afterenricher"}) = <<"next", "afterenricher">>
        /\ config.AfterNextEnricher =>
              \A i \in 1..Len(sink) :
                  sink[i].req = r =>
                      /\ HasField(sink[i].ctx, "after", "yes")
                      /\ HasField(sink[i].ctx, "seen_status", sink[i].status)
                      /\ rq[r].userID /= "" =>
                             HasField(sink[i].ctx, "user_id", rq[r].userID)
                      /\ Len(EventsOf(r)) = 1

C10_Witness ==
    \E i \in 1..Len(sink) :
        /\ config.AfterNextEnricher
        /\ HasField(sink[i].ctx, "user_id", "123")
        /\ HasField(sink[i].ctx, "seen_status", StatusInternalServerError)
        /\ sink[i].status = StatusInternalServerError

\* C11: per-request derivation never mutates the shared base logger: no step of
\* any request changes the engine context, level, prefix or setter list of
\* config.Logger.
C11_BaseLoggerNeverMutated == [][loggers'["base"] = loggers["base"]]_vars

\* A request without a request id went through the Enricher and its event
\* carries the enricher's field.
C11_Witness ==
    /\ Done("r1") /\ config.Enricher /\ rq["r1"].id = ""
    /\ \E i \in DOMAIN sink : HasField(sink[i].ctx, "test", "test")
    /\ loggers["base"].log.ctx = << >>

\* The context the logger derived for a request has: the request id, if one was
\* found, then the Enricher's field, if an Enricher is configured.
DerivedCtx(r) ==
    (IF rq[r].id /= "" THEN <<(<<config.RequestIDKey, rq[r].id>>)>> ELSE << >>)
        \o (IF config.Enricher THEN <<(<<"test", "test">>)>> ELSE << >>)

Attached(r) ==
    pc[r] \in {"before", "next", "error", "afterskipper", "afterenrich", "emit", "done"}
        /\ ~PreSkipped(r)

\* C13: on every request that is not pre-skipped, the logger derived for it (the
\* base logger, the request id if any, the Enricher's fields if any) is the one
\* stored in the request's context, the one c.Logger() returns inside the handler
\* and the one that emits the event, so the Enricher's field is in the event.
C13_DerivedLoggerEverywhere ==
    \A r \in Reqs :
        Attached(r) =>
            /\ rq[r].ctxLogger.ctx = DerivedCtx(r)
            /\ rq[r].ctxLogger.level = BaseLevel
            /\ rq[r].nextCalls > 0 =>
                   rq[r].seenLogger = IF DerivedCtx(r) = << >> THEN "base" ELSE r
            /\ pc[r] \in {"before", "next", "error", "afterskipper", "afterenrich"} =>
                   loggers[rq[r].logger].log = rq[r].ctxLogger
            /\ \A i \in DOMAIN sink :
                   sink[i].req = r =>
                       /\ IsPrefix(DerivedCtx(r), sink[i].ctx)
                       /\ ~config.AfterNextEnricher => sink[i].ctx = rq[r].ctxLogger.ctx
                       /\ config.Enricher => HasField(sink[i].ctx, "test", "test")

\* A request with an id and an Enricher has been handled and logged; its handler
\* saw the request's own logger.
C13_Witness ==
    /\ Done("r1") /\ config.Enricher /\ rq["r1"].id /= ""
    /\ rq["r1"].seenLogger = "r1"
    /\ \E i \in DOMAIN sink : sink[i].ctx = DerivedCtx("r1")

IDFields(ctx) == {i \in 1..Len(ctx) : ctx[i][1] = config.RequestIDKey}

\* C14: the request id is the inbound request's header when it is not empty, else
\* the same header of the response; an event carries it under RequestIDKey, "id"
\* by default, and carries no such field when neither header is set.
C14_RequestIDLookup ==
    /\ config.RequestIDKey = "id"
    /\ \A i \in DOMAIN sink :
          LET r == rq[sink[i].req]
              ctx == sink[i].ctx
          IN /\ r.hdrReq /= "" => HasField(ctx, "id", r.hdrReq)
             /\ r.hdrReq = "" /\ r.hdrRes /= "" => HasField(ctx, "id", r.hdrRes)
             /\ r.hdrReq = "" /\ r.hdrRes = "" => IDFields(ctx) = {}
             /\ Cardinality(IDFields(ctx)) <= 1

\* Both headers are set, to different values, and the event carries the request's.
C14_Witness ==
    /\ rq["r1"].hdrReq = "a" /\ rq["r1"].hdrRes = "b"
    /\ \E i \in DOMAIN sink : HasField(sink[i].ctx, "id", "a")

\* RequestLatencyLevel left unset is the zero value of zerolog.Level.
UnsetLatencyLevel == DebugLevel

Escalated(r) ==
    /\ Logged(r) /\ rq[r].err = "nil"
    /\ config.RequestLatencyLimit /= 0
    /\ rq[r].latency > config.RequestLatencyLimit

\* C15: with RequestLatencyLimit configured and RequestLatencyLevel left unset, a
\* request without error whose latency exceeds the limit is logged at the default
\* escalation severity, zerolog.InfoLevel.
C15_DefaultEscalationIsInfo ==
    \A r \in Reqs :
        Escalated(r) /\ config.RequestLatencyLevel = UnsetLatencyLevel =>
            /\ \A i \in DOMAIN sink : sink[i].req = r => sink[i].level = InfoLevel
            /\ Passes(InfoLevel) => Len(EventsOf(r)) = 1

\* C16: with a NestKey the standard request fields are only in the sub-object
\* under NestKey, and the level and the error stay at the top level; without a
\* NestKey the standard fields are at the top level too.
C16_NestKeyPlacement ==
    \A i \in DOMAIN sink :
        LET e == sink[i]
        IN /\ IF config.NestKey /= ""
              THEN /\ e.nested = StdFields
                   /\ e.top \cap StdFields = {}
                   /\ config.NestKey \in e.top
              ELSE /\ StdFields \subseteq e.top
                   /\ e.nested = {}
           /\ e.level /= NoLevel => "level" \in e.top
           /\ e.err /= "nil" => "error" \in e.top
           /\ e.nested \cap {"level", "error"} = {}

\* An event of a failed request has been written with its fields under NestKey.
C16_Witness ==
    \E i \in DOMAIN sink :
        /\ config.NestKey = "request" /\ sink[i].err /= "nil"
        /\ sink[i].nested = StdFields /\ "error" \in sink[i].top

\* The fields the event of a request carries: the derived ones, then those of the
\* post-handler enricher for this request's response.
OwnCtx(r) ==
    IF config.AfterNextEnricher THEN AfterNextEnricher(rq[r], DerivedCtx(r))
    ELSE DerivedCtx(r)

\* C12: whatever the interleaving of the requests handled by one middleware
\* instance, the event of a request, and what its handler logs through the
\* context logger, carry the request's own request-id and enricher fields and no
\* field derived for another request.
C12_RequestsIsolated ==
    \A r \in Reqs :
        ~PreSkipped(r) =>
            /\ rq[r].nextCalls > 0 => rq[r].seenCtx = DerivedCtx(r)
            /\ Attached(r) => rq[r].ctxLogger.ctx = DerivedCtx(r)
            /\ \A i \in DOMAIN sink : sink[i].req = r => sink[i].ctx = OwnCtx(r)

\* Two requests with different ids were in their handlers at the same time and
\* both have been logged.
C12_Witness ==
    /\ Logged("r1") /\ Logged("r2") /\ Len(sink) = 2
    /\ rq["r1"].id = "a" /\ rq["r2"].id = "b"
    /\ rq["r1"].start < rq["r2"].start
    /\ rq["r2"].start < rq["r1"].start + rq["r1"].latency

\* The Loggers the caller's variables point to.
Live == {h \in Handles : handle[h] /= "nil"}

\* C17: in every state reached by New, SetLevel, SetPrefix, SetOutput and Clone
\* calls, Level() is MatchZeroLevel's translation of the minimum severity of the
\* Logger's zerolog instance.
C17_LevelMatchesEngine ==
    \A h \in Live :
        lg[handle[h]].level = MatchZeroLevel(lg[handle[h]].log.level)[1]

\* The lines written so far, on all writers.
Lines == Len(writers["w1"]) + Len(writers["w2"])

View(h) ==
    LET l == lg[handle[h]]
    IN [prefix |-> l.prefix, level |-> l.level, out |-> l.out, log |-> l.log]

\* C19: a call that changes what one Logger of a clone family shows (SetPrefix,
\* SetLevel or SetOutput on a clone) leaves every other one unchanged: the
\* original's Prefix(), Level(), output and the fields of the events it emits are
\* what they were before the call.
C19_CloneCallsLeaveOriginal ==
    [][\A h \in Live :
          View(h)' /= View(h) => \A o \in Live \ {h} : View(o)' = View(o)]_vars

\* The clone has been given a prefix, a level and an output of its own, and the
\* original still has those it was built with.
C19_Witness ==
    /\ handle["c1"] /= "nil"
    /\ View("c1").prefix = "p" /\ View("l").prefix = ""
    /\ View("c1").level = ERROR /\ View("l").level /= ERROR
    /\ View("c1").out = "w2" /\ View("l").out = "w1"

\* The setters a Logger would replay.
Setters(a) == elems(arrays, lg[a].setters)

\* C20: a clone's setter list is the original's followed by the extra setters,
\* and no later call on another Logger alters it: the list of a Logger changes
\* only in a call that assigns the Logger's own slice.
C20_CloneSharesNothing ==
    [][/\ \A h \in Handles, c \in Handles :
             \A extra \in Extras(c) :
                 Clone(h, c, extra) => Setters(c)' = Setters(handle[h]) \o extra
       /\ \A a \in Handles :
             lg[a] /= NoLogger /\ lg'[a].setters = lg[a].setters
                 => Setters(a)' = Setters(a)]_vars

\* A request without error, logged by a logger at info with slow requests at warn.
LatencyCase(r) ==
    /\ Logged(r) /\ rq[r].err = "nil"
    /\ BaseLevel = InfoLevel
    /\ config.RequestLatencyLimit > 0 /\ config.RequestLatencyLevel = WarnLevel

LevelsOf(r) == {sink[i].level : i \in {j \in DOMAIN sink : sink[j].req = r}}

C27_ErrorHandledBeforeSkipperAndEvent ==
    \A r \in Reqs :
        (config.HandleError /\ ~PreSkipped(r) /\ rq[r].err /= "nil"
         /\ pc[r] \in {"afterskipper", "afterenrich", "emit", "done"}) =>
            /\ rq[r].errorCalls = 1
            /\ rq[r].status = IF rq[r].committed /\ rq[r].status = StatusMovedPermanently
                               THEN StatusMovedPermanently
                               ELSE StatusInternalServerError
            /\ Done(r) => rq[r].afterSkipped = AfterNextSkipper(config, rq[r])
            /\ \A i \in DOMAIN sink : sink[i].req = r => sink[i].status = rq[r].status

\* A failed request was answered by the error handler and its event has the 500.
C27_Witness ==
    /\ config.HandleError /\ Logged("r1") /\ rq["r1"].err /= "nil"
    /\ \E i \in DOMAIN sink : sink[i].status = StatusInternalServerError

\* C28: the downstream handler is invoked exactly once for every request, on the
\* pre-skipped, the post-skipped and the emitting path: never twice, and once by
\* the time the middleware returns.
C28_HandlerCalledOnce ==
    \A r \in Reqs :
        /\ rq[r].nextCalls <= 1
        /\ pc[r] \in {"error", "afterskipper", "afterenrich", "emit", "done"} =>
               rq[r].nextCalls = 1

\* A request that was not pre-skipped, though the configuration can pre-skip,
\* has been post-skipped after its handler ran once.
C28_Witness ==
    /\ Done("r1") /\ rq["r1"].nextCalls = 1
    /\ PostSkipped("r1") /\ config.Skipper = "path"

\* C29: with HandleError a failing request that the post-handler skipper skips
\* still has its error forwarded exactly once, and writes no event; a pre-skipped
\* request never reaches the error handler nor BeforeNext.
C29_ForwardingIgnoresPostSkip ==
    \A r \in Reqs :
        /\ (config.HandleError /\ PostSkipped(r) /\ rq[r].err /= "nil") =>
               rq[r].errorCalls = 1 /\ EventsOf(r) = << >>
        /\ PreSkipped(r) => rq[r].errorCalls = 0 /\ rq[r].beforeCalls = 0

\* A failing redirect was post-skipped with HandleError set.
C29_Witness ==
    /\ config.HandleError /\ PostSkipped("r1") /\ Done("r1")
    /\ rq["r1"].err /= "nil" /\ rq["r1"].errorCalls = 1

\* C21: GetEffectiveZerologLevel returns the stricter, numerically higher, of the
\* logger's own minimum severity and the global one, for every pair of levels.
C21_EffectiveIsStricter ==
    lv.eff /= << >> =>
        /\ lv.eff[1] >= lv.inst /\ lv.eff[1] >= globalLevel
        /\ lv.eff[1] \in {lv.inst, globalLevel}

\* Global warn with an instance at trace has given warn.
C21_Witness ==
    lv.inst = TraceLevel /\ globalLevel = WarnLevel /\ lv.eff = <<WarnLevel>>

\* C22: a Logger built by From from an existing engine instance reports as
\* Level() the host translation of the effective level, the stricter of the
\* instance's level and the global level.
C22_LevelIsEffective ==
    loggers["base"].level =
        MatchZeroLevel(GetEffectiveZerologLevel(loggers["base"].log, globalLevel))[1]

\* C23: for a host severity from DEBUG to OFF, translating to the engine level,
\* back to the host level and to the engine level again gives the pair the first
\* translation gave; an input outside the tables gives the disabled pair,
\* no-level and OFF, from either function.
C23_RoundTrip ==
    /\ (lv.host \in EchoLevels /\ lv.pair /= << >>) => lv.pair[2] = lv.host
    /\ (lv.host \in EchoLevels /\ lv.again /= << >>) => lv.again = lv.pair
    /\ (lv.host \notin EchoLevels /\ lv.pair /= << >>) => lv.pair = <<NoLevel, OFF>>
    /\ (lv.inst \notin ZeroLevels /\ lv.zpair /= << >>) => lv.zpair = <<OFF, NoLevel>>
    /\ lv.back /= << >> => lv.back[2] = lv.pair[1]

\* INFO has gone to the engine, back and to the engine again; a level of no
\* table has been translated too.
C23_Witness ==
    /\ lv.host = INFO /\ lv.again = <<InfoLevel, INFO>>
    /\ lv.inst \notin ZeroLevels /\ lv.zpair /= << >>

C30_PrintAlwaysWrites ==
    [][\A h \in Live :
          LET a == handle[h]
              out == lg[a].out
          IN /\ Printf(h) =>
                   /\ Len(writers'[out]) = Len(writers[out]) + 1
                   /\ IsPrefix(writers[out], writers'[out])
                   /\ writers'[out][Len(writers'[out])].level = NoLevel
                   /\ HasField(writers'[out][Len(writers'[out])].ctx, "level", "-")
                   /\ \A w \in Writers \ {out} : writers'[w] = writers[w]
             /\ SetLevel(h, OFF) =>
                   lg'[a].level = OFF /\ lg'[a].log.level = NoLevel
             /\ \A sev \in Severities :
                   (Log(h, sev) /\ lg[a].level = OFF) => writers' = writers]_vars

\* A Logger set to OFF has made three more calls, of which only a print wrote a
\* line.
C30_Witness ==
    /\ lg["l"].level = OFF
    /\ calls = 4
    /\ Len(writers["w1"]) = 1
    /\ writers["w1"][1].level = NoLevel


====
